---------------------------- MODULE Spec2Model ----------------------------
(***************************************************************************)
(* A model of serializable.py (marksantesson/xmldump): models_to_xml,      *)
(* delete_all_models_in_db and xml_to_models over a small record store,    *)
(* and the datetime codec.                                                 *)
(*                                                                         *)
(* A record type is a name; a schema is a set of types with foreign keys   *)
(* between them.  An instance is [cls, pk, refs]: refs maps each foreign   *)
(* key field of the type to the primary key of its target (0 is None).     *)
(* An XML element is [tag, type, to_type, text, kids]; an absent attribute *)
(* is "", text is a sequence of one-character strings.                     *)
(***************************************************************************)
EXTENDS Integers, Sequences, FiniteSets, TLC

\* Largest number of instances of one type in the initial store.
MaxPk == 2

\* Deepest _model_to_xml call stack the model follows.
MaxStack == 8

-----------------------------------------------------------------------------
(* Schemas *)

TypeOrder ==
    <<"A", "B", "C", "D", "E", "F", "G", "H", "I", "J", "K",
      "L", "M", "N", "O", "P", "Q", "R", "S", "T", "U", "V">>

TypeIndex(t) == CHOOSE i \in 1..Len(TypeOrder) : TypeOrder[i] = t

\* The foreign key field that refers to type t (the lower-cased model name).
FieldName(t) ==
    <<"a", "b", "c", "d", "e", "f", "g", "h", "i", "j", "k",
      "l", "m", "n", "o", "p", "q", "r", "s", "t", "u", "v">>[TypeIndex(t)]

\* _path_to_class: module path, a dot, the class name.
PathToClass(t) ==
    <<"app.models.A", "app.models.B", "app.models.C", "app.models.D",
      "app.models.E", "app.models.F", "app.models.G", "app.models.H",
      "app.models.I", "app.models.J", "app.models.K", "app.models.L",
      "app.models.M", "app.models.N", "app.models.O", "app.models.P",
      "app.models.Q", "app.models.R", "app.models.S", "app.models.T",
      "app.models.U", "app.models.V">>[TypeIndex(t)]

\* B has a foreign key to A (Menu / MenuItem).
SchemaOwned == [types |-> {"A", "B"}, fk |-> {<<"B", "A">>}]
\* A refers to itself.
SchemaSelf == [types |-> {"A", "B"}, fk |-> {<<"A", "A">>}]
\* A and B refer to each other.
SchemaCycle == [types |-> {"A", "B"}, fk |-> {<<"A", "B">>, <<"B", "A">>}]
\* C has a foreign key to A and one to B (OrderEntry / Order / MenuItem).
SchemaDiamond == [types |-> {"A", "B", "C"}, fk |-> {<<"C", "A">>, <<"C", "B">>}]
\* C -> B -> A.
SchemaChain == [types |-> {"A", "B", "C"}, fk |-> {<<"B", "A">>, <<"C", "B">>}]

Schemas == {SchemaOwned, SchemaSelf, SchemaCycle, SchemaDiamond, SchemaChain}

\* Twelve types with one foreign key between two of them.
WideTypes == SubSeq(TypeOrder, 1, 12)

WideSchemas ==
    {[types |-> {WideTypes[i] : i \in 1..Len(WideTypes)},
      fk |-> {<<WideTypes[e[1]], WideTypes[e[2]]>>}] :
        e \in {x \in (1..Len(WideTypes)) \X (1..Len(WideTypes)) : x[1] # x[2]}}

\* A chain of n types, 19 to 22 of them: each type has a foreign key to the
\* next one ("fwd"), or the next one has a foreign key to it ("back"), or
\* the two alternate ("alt"); closed: the last type also refers to the first.
ChainEdge(kind, i) ==
    IF kind = "fwd" \/ (kind = "alt" /\ i % 2 = 1)
    THEN <<TypeOrder[i], TypeOrder[i + 1]>>
    ELSE <<TypeOrder[i + 1], TypeOrder[i]>>

DeepSchemas ==
    {[types |-> {TypeOrder[i] : i \in 1..n},
      fk |-> {ChainEdge(kind, i) : i \in 1..(n - 1)}
             \cup (IF closed THEN {<<TypeOrder[n], TypeOrder[1]>>} ELSE {})] :
        n \in 19..Len(TypeOrder), kind \in {"fwd", "back", "alt"}, closed \in BOOLEAN}

\* The members of S in the order of sequence q.
InOrder(q, S) == SelectSeq(q, LAMBDA x : x \in S)

\* The types to which t has a foreign key.
Targets(s, t) == {d \in s.types : <<t, d>> \in s.fk}

\* valnames: the pk column, then the foreign keys (with "_id" cut off).
Fields(s, t) ==
    <<[name |-> "id", to |-> ""]>> \o
    [i \in 1..Len(InOrder(TypeOrder, Targets(s, t))) |->
        [name |-> FieldName(InOrder(TypeOrder, Targets(s, t))[i]),
         to   |-> InOrder(TypeOrder, Targets(s, t))[i]]]

\* owned_models(cls): one entry per "<child>_set" name of dir(cls), which is
\* sorted; every child class has a foreign key to cls.
OwnedModels(s, t) == InOrder(TypeOrder, {c \in s.types : <<c, t>> \in s.fk})

-----------------------------------------------------------------------------
(* The record store *)

RECURSIVE SortedSeq(_)
SortedSeq(S) ==
    IF S = {} THEN <<>>
    ELSE LET m == CHOOSE x \in S : \A y \in S : x <= y
         IN  <<m>> \o SortedSeq(S \ {m})

Ident(o) == <<o.cls, o.pk>>

Idents(st) == {Ident(o) : o \in st}

Lookup(st, t, p) == CHOOSE o \in st : o.cls = t /\ o.pk = p

\* cls.objects.all(): the rows of the table, in primary key order.
ObjectsAll(st, t) ==
    LET ps == SortedSeq({o.pk : o \in {x \in st : x.cls = t}})
    IN  [i \in 1..Len(ps) |-> Lookup(st, t, ps[i])]

\* child_cls.objects.filter(<fk> = pk)
ObjectsFilterFk(st, child, fld, p) ==
    SelectSeq(ObjectsAll(st, child), LAMBDA o : o.refs[fld] = p)

\* The stores of a schema with cnt[t] instances of type t, every foreign key
\* set to an existing instance.
Slots(s, cnt) ==
    {<<t, p, d>> \in s.types \X (1..MaxPk) \X s.types :
        p <= cnt[t] /\ <<t, d>> \in s.fk}

StoreOf(s, cnt, rf) ==
    {[cls |-> t, pk |-> p,
      refs |-> [f \in {FieldName(d) : d \in Targets(s, t)} |->
                  rf[<<t, p, CHOOSE d \in Targets(s, t) : FieldName(d) = f>>]]] :
        <<t, p>> \in {x \in s.types \X (1..MaxPk) : x[2] <= cnt[x[1]]}}

Stores(s) ==
    UNION {
        {StoreOf(s, cnt, rf) :
            rf \in {r \in [Slots(s, cnt) -> 1..MaxPk] :
                      \A x \in Slots(s, cnt) : r[x] <= cnt[x[3]]}} :
        cnt \in [s.types -> 0..MaxPk]}

\* Root lists: non-empty lists of distinct types.
RootLists(s) ==
    {q \in UNION {[1..n -> s.types] : n \in 1..Cardinality(s.types)} :
        \A i, j \in 1..Len(q) : i # j => q[i] # q[j]}

\* Three types with any foreign keys between them, a type to itself included.
TreeSchemas ==
    {[types |-> {"A", "B", "C"}, fk |-> e] : e \in SUBSET ({"A", "B", "C"} \X {"A", "B", "C"})}

\* The root lists delete_all_models_in_db is called with: for a schema of
\* WideSchemas the first n types, for every n.
DeleteRootLists(s) ==
    IF s \in Schemas THEN RootLists(s)
    ELSE {SubSeq(WideTypes, 1, n) : n \in 1..Len(WideTypes)}

Perms(S) == {q \in [1..Cardinality(S) -> S] :
                \A i, j \in 1..Cardinality(S) : i # j => q[i] # q[j]}

-----------------------------------------------------------------------------
(* Text *)

Digits == <<"0", "1", "2", "3", "4", "5", "6", "7", "8", "9">>

\* str(v) of a non-negative int.
RECURSIVE IntToStr(_)
IntToStr(n) ==
    IF n < 10 THEN <<Digits[n + 1]>>
    ELSE IntToStr(n \div 10) \o <<Digits[(n % 10) + 1]>>

IsDigit(c) == \E d \in 1..10 : Digits[d] = c

DigitVal(c) == (CHOOSE d \in 1..10 : Digits[d] = c) - 1

IsNumber(txt) == Len(txt) > 0 /\ \A i \in 1..Len(txt) : IsDigit(txt[i])

\* int(text) of a string of digits.
RECURSIVE StrToInt(_)
StrToInt(txt) ==
    IF Len(txt) = 0 THEN 0
    ELSE 10 * StrToInt(SubSeq(txt, 1, Len(txt) - 1)) + DigitVal(txt[Len(txt)])

\* _etn / ET.Element
Etn(tag, type, to_type, text) ==
    [tag |-> tag, type |-> type, to_type |-> to_type, text |-> text, kids |-> <<>>]

Append1(node, kid) == [node EXCEPT !.kids = Append(@, kid)]

-----------------------------------------------------------------------------
(* State *)

VARIABLES
    schema,        \* the application's record types and foreign keys
    store,         \* the database: a set of instances
    roots,         \* models_to_serialize
    includeRest,   \* include_rest_of_app
    appOrder,      \* the order in which set(newmodels) is enumerated
    pc,            \* position of the driver: "start", "ser", "del", ...
    run,           \* 1: first models_to_xml, 2: the one after the reload
    models,        \* models_to_xml: the working list of classes
    mi,            \* models_to_xml: index of the class being enumerated
    qs,            \* models_to_xml: instances of that class still to visit
    touched,       \* context['touched']
    owned_by,      \* context['owned_by']
    ser_postprocess, \* context['postprocess'] of models_to_xml
    stack,         \* the active _model_to_xml calls, innermost last
    xml,           \* children of the ModelData element built so far
    t1, t2,        \* the trees returned by the two models_to_xml calls
    g0,            \* the store before anything ran
    err,           \* the fatal error that ended the run, "" if none
    expanded,      \* how often each instance got past the touched test
    steps,         \* the steps models_to_xml has taken in this run
    delRoots,      \* root_models of delete_all_models_in_db
    before,        \* the store when xml_to_models was called
    inXml,         \* children of the ModelData element given to xml_to_models
    li,            \* xml_to_models: index of the next top-level element
    postprocess,   \* context['postprocess'] of xml_to_models
    pp_needs_obj,  \* context['pp_needs_obj'] of xml_to_models
    log,           \* the instances created by xml_to_models, in order
    ran,           \* the closures xml_to_models has called, in order
    enq,           \* the closures appended to context['postprocess'], in order
    treeCls,       \* all_models_in_tree: the class it was called with
    treeAcc,       \* all_models_in_tree: accumulatingList when it returned
    cpc,           \* codec: "value" (a datetime is held), "text", "failed", "off"
    dt,            \* codec: the datetime held
    text,          \* codec: the text held
    dt0, text0,    \* codec: the first datetime and the first text
    rounds         \* codec: conversions done

serVars == <<models, mi, qs, touched, owned_by, ser_postprocess, stack, xml, expanded, steps>>
inputVars == <<schema, roots, includeRest, appOrder, g0>>
codecVars == <<cpc, dt, text, dt0, text0, rounds>>
loadVars == <<before, inXml, li, postprocess, pp_needs_obj, log, ran, enq>>
treeVars == <<treeCls, treeAcc>>

NoTree == <<[tag |-> "no tree", type |-> "", to_type |-> "", text |-> <<>>, kids |-> <<>>]>>

-----------------------------------------------------------------------------
(* models_to_xml *)

Instance(o) == [kind |-> "instance", cls |-> o.cls, pk |-> o.pk]
Class(t) == [kind |-> "class", cls |-> t]
None == [kind |-> "none"]

\* django.db.models.Model.__eq__ / __ne__
ModelEq(obj, other) ==
    /\ other.kind = "instance"
    /\ other.cls = obj.cls
    /\ other.pk = obj.pk

ModelNe(obj, other) == ~ModelEq(obj, other)

\* models = copy(models_to_serialize), plus the application's other models.
WorkingModels(rts, rest, order) ==
    IF rest THEN rts \o SelectSeq(order, LAMBDA x : \A i \in 1..Len(rts) : rts[i] # x)
    ELSE rts

\* A postprocess list that starts with an entry.
NewPostprocessHeld == <<"fn">>

\* postprocess = list()
NewPostprocess == <<>>

\* An owned_by that starts without the root types.
InitialOwnedByEmpty(rts) == <<>>

\* owned_by = dict([(cls, None) for cls in models_to_serialize])
InitialOwnedBy(rts) == [t \in {rts[i] : i \in 1..Len(rts)} |-> None]

\* A touched test that never finds the instance.
NeverTouched(tch, o) == FALSE

\* A test that takes an instance as touched once one of its class is.
TouchedByClass(tch, o) == \E id \in tch : id[1] = o.cls

\* obj in context['touched']
IsTouched(tch, o) == Ident(o) \in tch

\* A set add that adds nothing.
TouchNothing(tch, o) == tch

\* context['touched'].add(obj)
Touch(tch, o) == tch \cup {Ident(o)}

\* A reference element that does not say it is one.
ReferenceNodeUntyped(o, name) == Etn(name, "", PathToClass(o.cls), IntToStr(o.pk))

\* The reference element of an instance that is already touched.
ReferenceNode(o, name) == Etn(name, "reference", PathToClass(o.cls), IntToStr(o.pk))

\* _field_to_xml for a value that is no model instance.
ScalarToXml(k, v) == Etn(k, "int", "", IntToStr(v))

\* The frame of a _model_to_xml call that got past the touched test.
\* A call that names every node after the class, field or not.
NewFrameUnnamed(o, name) ==
    [obj    |-> o,
     name   |-> name,
     node   |-> Etn(PathToClass(o.cls), "", "", <<>>),
     fields |-> Fields(schema, o.cls),
     omodels |-> OwnedModels(schema, o.cls),
     objs   |-> <<>>,
     owned  |-> Etn("___owned", "", "", <<>>),
     wait   |-> ""]

NewFrame(o, name) ==
    [obj    |-> o,
     name   |-> name,
     node   |-> IF name # "" THEN Etn(name, PathToClass(o.cls), "", <<>>)
                ELSE Etn(PathToClass(o.cls), "", "", <<>>),
     fields |-> Fields(schema, o.cls),
     omodels |-> OwnedModels(schema, o.cls),
     objs   |-> <<>>,
     owned  |-> Etn("___owned", "", "", <<>>),
     wait   |-> ""]

Top == stack[Len(stack)]

SetTop(f) == [stack EXCEPT ![Len(stack)] = f]

ModelsToXml ==
    /\ pc \in {"start", "reser"}
    /\ pc' = "ser"
    /\ models' = WorkingModels(roots, includeRest, appOrder)
    /\ mi' = 0
    /\ qs' = <<>>
    /\ touched' = {}
    /\ owned_by' = InitialOwnedBy(roots)
    /\ ser_postprocess' = NewPostprocess
    /\ stack' = <<>>
    /\ xml' = <<>>
    /\ expanded' = [i \in Idents(store) |-> 0]
    /\ steps' = 0
    /\ UNCHANGED <<inputVars, treeVars, codecVars, loadVars, delRoots, store, run, t1, t2, err>>

\* for cls in models: ... cls.objects.all()
SerTopCls ==
    /\ steps' = steps + 1
    /\ pc = "ser" /\ stack = <<>> /\ qs = <<>> /\ mi < Len(models)
    /\ mi' = mi + 1
    /\ qs' = ObjectsAll(store, models[mi + 1])
    /\ UNCHANGED <<inputVars, treeVars, codecVars, loadVars, delRoots, store, pc, run, models, touched, owned_by,
                   ser_postprocess, stack, xml, t1, t2, err, expanded>>

\* for o in ...: if o not in touched: node = _model_to_xml(o, context)
SerTopObj ==
    /\ steps' = steps + 1
    /\ pc = "ser" /\ stack = <<>> /\ qs # <<>>
    /\ qs' = Tail(qs)
    /\ IF IsTouched(touched, Head(qs))
       THEN UNCHANGED <<touched, stack, expanded>>
       ELSE /\ touched' = Touch(touched, Head(qs))
            /\ stack' = <<NewFrame(Head(qs), "")>>
            /\ expanded' = [expanded EXCEPT ![Ident(Head(qs))] = @ + 1]
    /\ UNCHANGED <<inputVars, treeVars, codecVars, loadVars, delRoots, store, pc, run, models, mi, owned_by,
                   ser_postprocess, xml, t1, t2, err>>

\* One pass of "for name in valnames": _field_to_xml(obj, name, value).
SerField ==
    /\ steps' = steps + 1
    /\ pc = "ser" /\ stack # <<>> /\ Top.wait = "" /\ Top.fields # <<>>
    /\ LET f   == Top
           fld == Head(f.fields)
           f1  == [f EXCEPT !.fields = Tail(@)]
       IN  IF fld.to = ""
           THEN \* an int
                /\ stack' = SetTop([f1 EXCEPT !.node = Append1(@, ScalarToXml(fld.name, f.obj.pk))])
                /\ UNCHANGED <<touched, expanded, pc, err>>
           ELSE IF f.obj.refs[fld.name] = 0
           THEN \* None: raise Exception('Unknown type')
                /\ pc' = "failed" /\ err' = "Unknown type"
                /\ UNCHANGED <<stack, touched, expanded>>
           ELSE LET v == Lookup(store, fld.to, f.obj.refs[fld.name])
                IN  IF IsTouched(touched, v)
                    THEN /\ stack' = SetTop([f1 EXCEPT !.node = Append1(@, ReferenceNode(v, fld.name))])
                         /\ UNCHANGED <<touched, expanded, pc, err>>
                    ELSE /\ Len(stack) < MaxStack
                         /\ touched' = Touch(touched, v)
                         /\ stack' = Append(SetTop([f1 EXCEPT !.wait = "field"]),
                                             NewFrame(v, fld.name))
                         /\ expanded' = [expanded EXCEPT ![Ident(v)] = @ + 1]
                         /\ UNCHANGED <<pc, err>>
    /\ UNCHANGED <<inputVars, treeVars, codecVars, loadVars, delRoots, store, run, models, mi, qs, owned_by,
                   ser_postprocess, xml, t1, t2>>

\* An ownership test that lets every instance nest what it owns.
AlwaysNest(ob, cls, obj) == TRUE

\* if cls not in owned_by: claim it; elif obj != owned_by[cls]: continue
MayNest(ob, cls, obj) ==
    \/ cls \notin DOMAIN ob
    \/ ~ModelNe(Instance(obj), ob[cls])

\* One pass of "for cls, membersFn in owned_models(obj)".
SerOwnedCls ==
    /\ steps' = steps + 1
    /\ pc = "ser" /\ stack # <<>> /\ Top.wait = "" /\ Top.fields = <<>>
    /\ Top.objs = <<>> /\ Top.omodels # <<>>
    /\ LET f   == Top
           cls == Head(f.omodels)
           f1  == [f EXCEPT !.omodels = Tail(@)]
       IN  /\ owned_by' = IF cls \notin DOMAIN owned_by
                           THEN owned_by @@ (cls :> Class(f.obj.cls))
                           ELSE owned_by
           /\ stack' = IF MayNest(owned_by, cls, f.obj)
                       THEN SetTop([f1 EXCEPT !.objs =
                               ObjectsFilterFk(store, cls, FieldName(f.obj.cls), f.obj.pk)])
                       ELSE SetTop(f1)
    /\ UNCHANGED <<inputVars, treeVars, codecVars, loadVars, delRoots, store, pc, run, models, mi, qs, touched,
                   ser_postprocess, xml, t1, t2, err, expanded>>

\* One pass of "for owned_obj in objs": _model_to_xml(owned_obj, context).
SerOwnedObj ==
    /\ steps' = steps + 1
    /\ pc = "ser" /\ stack # <<>> /\ Top.wait = "" /\ Top.fields = <<>>
    /\ Top.objs # <<>>
    /\ LET f  == Top
           o  == Head(f.objs)
           f1 == [f EXCEPT !.objs = Tail(@)]
       IN  IF IsTouched(touched, o)
           THEN /\ stack' = SetTop(f1)
                /\ UNCHANGED <<touched, expanded>>
           ELSE /\ Len(stack) < MaxStack
                /\ touched' = Touch(touched, o)
                /\ stack' = Append(SetTop([f1 EXCEPT !.wait = "owned"]), NewFrame(o, ""))
                /\ expanded' = [expanded EXCEPT ![Ident(o)] = @ + 1]
    /\ UNCHANGED <<inputVars, treeVars, codecVars, loadVars, delRoots, store, pc, run, models, mi, qs, owned_by,
                   ser_postprocess, xml, t1, t2, err>>

\* if len(owned): node.append(owned)
FinishNode(f) == IF Len(f.owned.kids) > 0 THEN Append1(f.node, f.owned) ELSE f.node

\* return node, and the caller's node.append / owned.append / xml.append.
SerReturn ==
    /\ steps' = steps + 1
    /\ pc = "ser" /\ stack # <<>> /\ Top.wait = "" /\ Top.fields = <<>>
    /\ Top.objs = <<>> /\ Top.omodels = <<>>
    /\ LET node == FinishNode(Top)
           rest == SubSeq(stack, 1, Len(stack) - 1)
       IN  IF rest = <<>>
           THEN /\ stack' = <<>>
                /\ xml' = Append(xml, node)
           ELSE LET p == rest[Len(rest)]
                    p1 == IF p.wait = "field"
                          THEN [p EXCEPT !.node = Append1(@, node), !.wait = ""]
                          ELSE [p EXCEPT !.owned = Append1(@, node), !.wait = ""]
                IN  /\ stack' = [rest EXCEPT ![Len(rest)] = p1]
                    /\ UNCHANGED xml
    /\ UNCHANGED <<inputVars, treeVars, codecVars, loadVars, delRoots, store, pc, run, models, mi, qs, touched, owned_by,
                   ser_postprocess, t1, t2, err, expanded>>

\* while context['postprocess']: x = x['postprocess'].pop(0) ...; return xml
SerDone ==
    /\ pc = "ser" /\ stack = <<>> /\ qs = <<>> /\ mi = Len(models)
    /\ IF ser_postprocess # <<>>
       THEN /\ pc' = "failed" /\ err' = "UnboundLocalError"
            /\ UNCHANGED <<t1, t2>>
       ELSE /\ err' = err
            /\ IF run = 1
               THEN /\ t1' = xml /\ t2' = t2 /\ pc' = "del"
               ELSE /\ t2' = xml /\ t1' = t1 /\ pc' = "done"
    /\ UNCHANGED <<inputVars, treeVars, codecVars, loadVars, delRoots, store, run, models, mi, qs, touched,
                   owned_by, ser_postprocess, stack, xml, expanded, steps>>

-----------------------------------------------------------------------------
(* delete_all_models_in_db *)

\* The depth all_models_in_tree starts with.
StartDepth == 20

\* The number of rounds delete_all_models_in_db expands at most.
MaxRounds == 10

\* A call without depth left that returns as if it had nothing to add.
OutOfDepthSilent(r) == r

\* assert depth, with depth = 0
OutOfDepth(r) == [r EXCEPT !.err = "AssertionError"]

\* all_models_in_tree(cls, accumulatingList, depth): r is [acc, err].
RECURSIVE AllModelsInTree(_, _, _, _)
RECURSIVE TreeOver(_, _, _, _)

\* The recursive calls for the classes of list q, in order.
TreeOver(s, q, r, depth) ==
    IF q = <<>> \/ r.err # "" THEN r
    ELSE TreeOver(s, Tail(q), AllModelsInTree(s, Head(q), r, depth), depth)

\* A class whose foreign key fields are passed over.
NoFieldClasses(s, cls) == <<>>

\* The classes the foreign key fields of cls refer to, in field order.
FieldClasses(s, cls) ==
    LET fs == SelectSeq(Fields(s, cls), LAMBDA f : f.to # "")
    IN  [i \in 1..Len(fs) |-> fs[i].to]

AllModelsInTree(s, cls, r, depth) ==
    IF r.err # "" THEN r
    ELSE IF depth = 0 THEN OutOfDepth(r)
    ELSE IF \E i \in 1..Len(r.acc) : r.acc[i] = cls THEN r
    ELSE TreeOver(s, FieldClasses(s, cls) \o OwnedModels(s, cls),
                  [r EXCEPT !.acc = Append(@, cls)], depth - 1)

\* The while loop of delete_all_models_in_db: r is [objs, err].
RECURSIVE ExpandRounds(_, _, _)
ExpandRounds(s, r, i) ==
    IF r.err # "" \/ ~(i < Len(r.objs) /\ i < MaxRounds) THEN r
    ELSE LET t    == AllModelsInTree(s, r.objs[i + 1], [acc |-> <<>>, err |-> ""], StartDepth)
             more == SelectSeq(t.acc, LAMBDA c : \A j \in 1..Len(r.objs) : r.objs[j] # c)
         IN  ExpandRounds(s, [objs |-> r.objs \o more, err |-> t.err], i + 1)

\* The classes whose tables delete_all_models_in_db(root_models) empties.
ClassesToDelete(s, root_models) == ExpandRounds(s, [objs |-> root_models, err |-> ""], 0)

-----------------------------------------------------------------------------
(* xml_to_models *)

\* _get_class_from_class_pathname: "" when the module has no such class.
ClassOfPath(s, path) ==
    IF \E t \in s.types : PathToClass(t) = path
    THEN CHOOSE t \in s.types : PathToClass(t) = path
    ELSE ""

\* '.' in typ
HasDot(typ) == \E i \in 1..Len(TypeOrder) : PathToClass(TypeOrder[i]) = typ

\* elem.tag.startswith('__') and not elem.tag.startswith('___')
ForTheClass(tag) == tag \in {"__version"}

\* A filter that finds no row.
ObjectsFilterNothing(st, cls, p) == {}

\* cls.objects.filter(pk = p)
ObjectsFilterPk(st, cls, p) == {o \in st : o.cls = cls /\ o.pk = p}

\* A primary key that is always assigned by the store.
PkAuto(attrs, used) ==
    IF used = {} THEN 1
    ELSE 1 + CHOOSE m \in used : \A y \in used : y <= m

\* The primary key of a created row: the id given, else the next free one.
PkOf(attrs, used) ==
    IF "id" \in DOMAIN attrs THEN attrs["id"].v
    ELSE IF used = {} THEN 1
    ELSE 1 + CHOOSE m \in used : \A y \in used : y <= m

\* cls.objects.create(**attributes_dict): r is [st, err, obj].
Create(s, st, cls, attrs) ==
    LET names == {Fields(s, cls)[i].name : i \in 1..Len(Fields(s, cls))}
        fks   == {FieldName(d) : d \in Targets(s, cls)}
        tgt(f) == CHOOSE d \in Targets(s, cls) : FieldName(d) = f
        used  == {o.pk : o \in {x \in st : x.cls = cls}}
        pk    == PkOf(attrs, used)
        ref(f) == IF f \in DOMAIN attrs /\ attrs[f].kind = "instance"
                  THEN attrs[f].pk ELSE 0
        obj   == [cls |-> cls, pk |-> pk, refs |-> [f \in fks |-> ref(f)]]
    IN  IF ~(DOMAIN attrs \subseteq names)
        THEN [st |-> st, err |-> "TypeError", obj |-> None]
        ELSE IF \/ "id" \in DOMAIN attrs /\ attrs["id"].kind # "int"
                \/ \E f \in fks \cap DOMAIN attrs :
                      ~(\/ attrs[f].kind = "none"
                        \/ attrs[f].kind = "instance" /\ attrs[f].cls = tgt(f))
        THEN [st |-> st, err |-> "ValueError", obj |-> None]
        ELSE IF pk \in used
        THEN [st |-> st, err |-> "IntegrityError", obj |-> None]
        ELSE [st |-> st \cup {obj}, err |-> "", obj |-> Instance(obj)]

\* A closure that creates the owned child from its id alone.
OwnedClosureBare(child) ==
    [kind |-> "owned",
     child |-> [child EXCEPT !.kids = SelectSeq(@, LAMBDA k : k.tag = "id")]]

\* The closure _xml_to_attribs makes for a child of ___owned.
OwnedClosure(child) == [kind |-> "owned", child |-> child]

\* The closure fn(obj, ...) _xml_to_field makes for a reference it did not find.
RefClosure(fieldname, cls, p) ==
    [kind |-> "ref", fieldname |-> fieldname, cls |-> cls, pk |-> p]

\* lambda: pp(obj)
BoundClosure(pp, obj) == [kind |-> "bound", pp |-> pp, obj |-> obj]

\* Where _xml_to_field puts the closure of an unresolved reference.
DeferReference(c, fn) == [c EXCEPT !.postprocess = Append(@, fn)]

RECURSIVE XmlToModel(_, _)
RECURSIVE XmlToAttribs(_, _, _, _)
RECURSIVE XmlToField(_, _, _)

\* Only the first owned child gets a closure.
QueueFirstOwned(kids, c) ==
    IF kids = <<>> THEN c
    ELSE [c EXCEPT !.postprocess = Append(@, [kind |-> "owned", child |-> Head(kids)])]

\* Owned children that are created on the spot, before the enclosing instance.
RECURSIVE CreateOwnedNow(_, _)
CreateOwnedNow(kids, c) ==
    IF kids = <<>> \/ c.err # "" THEN c
    ELSE CreateOwnedNow(Tail(kids), XmlToModel(Head(kids), c).c)

\* for child in elem: context['postprocess'].append(fn)
RECURSIVE QueueOwned(_, _)
QueueOwned(kids, c) ==
    IF kids = <<>> THEN c
    ELSE QueueOwned(Tail(kids),
                    [c EXCEPT !.postprocess = Append(@, OwnedClosure(Head(kids)))])

\* _xml_to_field: the result is [c, val]; c is the context with the store:
\* [st, postprocess, pp_needs_obj, err, log].
XmlToField(x, c, fieldname) ==
    LET typ == IF x.type # "" THEN x.type ELSE x.tag
    IN  IF HasDot(typ) THEN XmlToModel(x, c)
        ELSE IF typ = "int"
        THEN IF IsNumber(x.text)
             THEN [c |-> c, val |-> [kind |-> "int", v |-> StrToInt(x.text)]]
             ELSE [c |-> [c EXCEPT !.err = "ValueError"], val |-> None]
        ELSE IF typ = "reference"
        THEN LET cls == ClassOfPath(schema, x.to_type)
             IN  IF cls = "" THEN [c |-> [c EXCEPT !.err = "AssertionError"], val |-> None]
                 ELSE IF ~IsNumber(x.text)
                 THEN [c |-> [c EXCEPT !.err = "ValueError"], val |-> None]
                 ELSE LET objs == ObjectsFilterPk(c.st, cls, StrToInt(x.text))
                      IN  IF Cardinality(objs) > 1
                          THEN [c |-> [c EXCEPT !.err = "AssertionError"], val |-> None]
                          ELSE IF Cardinality(objs) = 1
                          THEN [c |-> c, val |-> Instance(CHOOSE o \in objs : TRUE)]
                          ELSE [c |-> DeferReference(c, RefClosure(fieldname, cls, StrToInt(x.text))),
                                val |-> None]
        ELSE [c |-> [c EXCEPT !.err = "Unknown type"], val |-> None]

\* _xml_to_attribs, from child i on: the result is [c, ret].
XmlToAttribs(x, i, c, ret) ==
    IF c.err # "" \/ i > Len(x.kids) THEN [c |-> c, ret |-> ret]
    ELSE LET elem == x.kids[i]
         IN  IF ForTheClass(elem.tag) THEN XmlToAttribs(x, i + 1, c, ret)
             ELSE IF elem.type # ""
             THEN IF elem.tag \in DOMAIN ret
                  THEN [c |-> [c EXCEPT !.err = "AssertionError"], ret |-> ret]
                  ELSE LET r == XmlToField(elem, c, elem.tag)
                       IN  XmlToAttribs(x, i + 1, r.c, ret @@ (elem.tag :> r.val))
             ELSE IF elem.tag # "___owned"
             THEN [c |-> [c EXCEPT !.err = "AssertionError"], ret |-> ret]
             ELSE XmlToAttribs(x, i + 1, QueueOwned(elem.kids, c), ret)

\* for pp in pps: context['postprocess'].append(lambda: pp(obj))
\* (every lambda sees the last pp)
BindNeedsObj(c, obj) ==
    LET pps == c.pp_needs_obj[Len(c.pp_needs_obj)]
        c1  == [c EXCEPT !.pp_needs_obj = SubSeq(@, 1, Len(@) - 1)]
    IN  [c1 EXCEPT !.postprocess =
            @ \o [i \in 1..Len(pps) |-> BoundClosure(pps[Len(pps)], obj)]]

\* xml_to_model: the result is [c, val].
XmlToModel(x, c) ==
    LET c1  == [c EXCEPT !.pp_needs_obj = Append(@, <<>>)]
        cls == ClassOfPath(schema, IF x.type # "" THEN x.type ELSE x.tag)
    IN  IF cls = "" THEN [c |-> [c1 EXCEPT !.err = "AssertionError"], val |-> None]
        ELSE LET a == XmlToAttribs(x, 1, c1, <<>>)
             IN  IF a.c.err # "" THEN [c |-> a.c, val |-> None]
                 ELSE LET r == Create(schema, a.c.st, cls, a.ret)
                      IN  IF r.err # ""
                          THEN [c |-> [a.c EXCEPT !.err = r.err], val |-> None]
                          ELSE [c |-> BindNeedsObj(
                                         [a.c EXCEPT !.st = r.st,
                                                     !.log = Append(@, <<r.obj.cls, r.obj.pk>>)],
                                         r.obj),
                                val |-> r.obj]

\* A pop that takes the closure appended last.
PopLast(q) == [fn |-> q[Len(q)], rest |-> SubSeq(q, 1, Len(q) - 1)]

\* A pop that also drops the closure behind the one it takes.
PopAndDrop(q) ==
    [fn |-> Head(q), rest |-> IF Len(q) >= 2 THEN Tail(Tail(q)) ELSE Tail(q)]

\* context['postprocess'].pop(0): the closure taken and the list left.
Pop0(q) == [fn |-> Head(q), rest |-> Tail(q)]

\* fn(obj): the deferred look-up of a reference, with its object.
RunRefClosure(c, fn, obj) ==
    IF Cardinality(ObjectsFilterPk(c.st, fn.cls, fn.pk)) = 1
    THEN c     \* setattr(obj, fieldname, objs[0]): the row is not saved
    ELSE [c EXCEPT !.err = "Still could not find object"]

\* A drain that puts the closure of a reference back on the list.
RunClosureRetry(c, fn) ==
    IF fn.kind = "owned" THEN XmlToModel(fn.child, c).c
    ELSE IF fn.kind = "bound" THEN RunRefClosure(c, fn.pp, fn.obj)
    ELSE [c EXCEPT !.postprocess = Append(@, fn)]

\* A drain that drops the closure of a reference instead of calling it.
RunClosureLenient(c, fn) ==
    IF fn.kind = "owned" THEN XmlToModel(fn.child, c).c
    ELSE IF fn.kind = "bound" THEN RunRefClosure(c, fn.pp, fn.obj)
    ELSE c

\* fn(): one closure of the postprocess list, called without arguments.
RunClosure(c, fn) ==
    IF fn.kind = "owned" THEN XmlToModel(fn.child, c).c
    ELSE IF fn.kind = "bound" THEN RunRefClosure(c, fn.pp, fn.obj)
    ELSE [c EXCEPT !.err = "TypeError"]   \* fn() takes an argument

-----------------------------------------------------------------------------
(* The datetime codec *)

\* A datetime is [y, mo, d, h, mi, s, us, utc]; utc: tzinfo is UTC, else None.
NoDatetime == [y |-> 0, mo |-> 0, d |-> 0, h |-> 0, mi |-> 0, s |-> 0, us |-> 0, utc |-> FALSE]

\* ','.join(q)
RECURSIVE Join(_)
Join(q) ==
    IF Len(q) = 0 THEN <<>>
    ELSE IF Len(q) = 1 THEN q[1]
    ELSE q[1] \o <<",">> \o Join(Tail(q))

\* An encoding that leaves the microsecond out.
EncodedValsNoMicro(v) == <<v.y, v.mo, v.d, v.h, v.mi, v.s>>

\* vals = list(dt.timetuple()[:6]) + [dt.microsecond]
EncodedVals(v) == <<v.y, v.mo, v.d, v.h, v.mi, v.s, v.us>>

\* ',UTC' if dt.tzinfo else ''
UtcMark(v) == IF v.utc THEN <<",", "U", "T", "C">> ELSE <<>>

\* _datetime_to_str
DatetimeToStr(v) ==
    <<"d", "a", "t", "e", "t", "i", "m", "e", "(">>
    \o Join([i \in 1..Len(EncodedVals(v)) |-> IntToStr(EncodedVals(v)[i])])
    \o UtcMark(v) \o <<")">>

\* The end of the run of digits of txt that starts at i (i - 1 if none).
RECURSIVE DigitsEnd(_, _)
DigitsEnd(txt, i) ==
    IF i <= Len(txt) /\ IsDigit(txt[i]) THEN DigitsEnd(txt, i + 1) ELSE i - 1

\* The numbers of txt from i on, each but the last followed by a comma
\* and a digit: [nums, next], next the place after the last number.
RECURSIVE Numbers(_, _)
Numbers(txt, i) ==
    LET e == DigitsEnd(txt, i)
    IN  IF e < i THEN [nums |-> <<>>, next |-> i]
        ELSE IF e + 2 <= Len(txt) /\ txt[e + 1] = "," /\ IsDigit(txt[e + 2])
        THEN LET r == Numbers(txt, e + 2)
             IN  [nums |-> <<StrToInt(SubSeq(txt, i, e))>> \o r.nums, next |-> r.next]
        ELSE [nums |-> <<StrToInt(SubSeq(txt, i, e))>>, next |-> e + 1]

StartsWith(txt, i, lit) == i + Len(lit) - 1 <= Len(txt) /\ SubSeq(txt, i, i + Len(lit) - 1) = lit

IsLeap(y) == (y % 4 = 0 /\ y % 100 # 0) \/ y % 400 = 0

DaysInMonth(y, m) ==
    IF m = 2 THEN (IF IsLeap(y) THEN 29 ELSE 28)
    ELSE IF m \in {4, 6, 9, 11} THEN 30 ELSE 31

\* datetime.datetime(*ints, tzinfo=tzinfo): the arguments are in range.
ValidDatetime(n) ==
    /\ n[1] \in 1..9999 /\ n[2] \in 1..12 /\ n[3] \in 1..DaysInMonth(n[1], n[2])
    /\ n[4] \in 0..23 /\ n[5] \in 0..59 /\ n[6] \in 0..59
    /\ Len(n) = 7 => n[7] \in 0..999999

\* _str_to_datetime: re.match('datetime\(((\d+,){5,6}\d+)(,UTC)?\)', dt),
\* then the constructor.  The result is [ok, dt].
StrToDatetime(txt) ==
    LET lit == <<"d", "a", "t", "e", "t", "i", "m", "e", "(">>
        r   == Numbers(txt, Len(lit) + 1)
        utc == StartsWith(txt, r.next, <<",", "U", "T", "C">>)
        close == IF utc THEN r.next + 4 ELSE r.next
        n   == r.nums
    IN  IF ~(/\ StartsWith(txt, 1, lit)
             /\ Len(n) \in {6, 7}
             /\ StartsWith(txt, close, <<")">>))
        THEN [ok |-> FALSE, dt |-> NoDatetime]     \* assert m
        ELSE IF ~ValidDatetime(n)
        THEN [ok |-> FALSE, dt |-> NoDatetime]     \* ValueError
        ELSE [ok |-> TRUE,
              dt |-> [y |-> n[1], mo |-> n[2], d |-> n[3], h |-> n[4], mi |-> n[5],
                      s |-> n[6], us |-> IF Len(n) = 7 THEN n[7] ELSE 0, utc |-> utc]]

\* The datetimes the codec is tried on.
Datetimes ==
    [y : {1, 2014, 9999}, mo : {1, 2, 12}, d : {1, 28}, h : {0, 3, 23},
     mi : {0, 12, 59}, s : {0, 13}, us : {0, 1456, 999999}, utc : BOOLEAN]

\* Conversions in one run of the codec.
CodecRounds == 3

EncodeDatetime ==
    /\ cpc = "value" /\ rounds < CodecRounds
    /\ text' = DatetimeToStr(dt)
    /\ text0' = IF rounds = 0 THEN DatetimeToStr(dt) ELSE text0
    /\ cpc' = "text"
    /\ rounds' = rounds + 1
    /\ UNCHANGED <<dt, dt0>>
    /\ UNCHANGED <<inputVars, treeVars, loadVars, serVars, delRoots, store, pc, run, t1, t2, err>>

DecodeDatetime ==
    /\ cpc = "text" /\ rounds < CodecRounds
    /\ LET r == StrToDatetime(text)
       IN  /\ dt' = r.dt
           /\ cpc' = IF r.ok THEN "value" ELSE "failed"
    /\ rounds' = rounds + 1
    /\ UNCHANGED <<text, dt0, text0>>
    /\ UNCHANGED <<inputVars, treeVars, loadVars, serVars, delRoots, store, pc, run, t1, t2, err>>

-----------------------------------------------------------------------------

(* The driver: models_to_xml, delete_all_models_in_db, xml_to_models,      *)
(* models_to_xml again (test_model_to_xml_and_back).                       *)

Range(q) == {q[i] : i \in 1..Len(q)}

DeleteAllModelsInDb ==
    /\ pc = "del"
    /\ \E rl \in DeleteRootLists(schema) :
          LET r == ClassesToDelete(schema, rl)
          IN  /\ delRoots' = rl
              /\ IF r.err # ""
                 THEN /\ pc' = "failed" /\ err' = r.err /\ store' = store
                 ELSE /\ pc' = "load" /\ err' = err
                      /\ store' = {o \in store : o.cls \notin Range(r.objs)}
    /\ UNCHANGED <<inputVars, treeVars, codecVars, loadVars, run, serVars, t1, t2>>

\* tree with its i-th top-level element left out.
Without(tree, i) == SubSeq(tree, 1, i - 1) \o SubSeq(tree, i + 1, Len(tree))

\* The documents xml_to_models is called with: the tree models_to_xml
\* returned, or that tree with one top-level element missing.
Documents(tree) == {tree} \cup {Without(tree, i) : i \in 1..Len(tree)}

Context == [st |-> store, postprocess |-> postprocess,
            pp_needs_obj |-> pp_needs_obj, err |-> "", log |-> log]

\* The context after a step of xml_to_models.
Continue(c) ==
    /\ store' = c.st
    /\ postprocess' = c.postprocess
    /\ pp_needs_obj' = c.pp_needs_obj
    /\ log' = c.log
    /\ err' = c.err
    /\ pc' = IF c.err # "" THEN "failed" ELSE pc

XmlToModels ==
    /\ pc = "load"
    /\ \E doc \in Documents(t1) : inXml' = doc
    /\ pc' = "loading"
    /\ before' = store
    /\ li' = 1
    /\ postprocess' = <<>>
    /\ pp_needs_obj' = <<>>
    /\ log' = <<>>
    /\ ran' = <<>>
    /\ enq' = <<>>
    /\ delRoots' = <<>>
    /\ UNCHANGED <<inputVars, treeVars, codecVars, store, run, serVars, t1, t2, err>>

\* What a call appended to context['postprocess'], which held q before it.
Enqueued(q, c) == SubSeq(c.postprocess, Len(q) + 1, Len(c.postprocess))

\* for obj_xml in toplevel_xml: xml_to_model(obj_xml, context)
LoadTop ==
    /\ pc = "loading" /\ li <= Len(inXml)
    /\ LET c == XmlToModel(inXml[li], Context).c
       IN  Continue(c) /\ enq' = enq \o Enqueued(postprocess, c)
    /\ li' = li + 1
    /\ UNCHANGED <<inputVars, treeVars, codecVars, delRoots, before, inXml, ran, run, serVars, t1, t2>>

\* while context['postprocess']: fn = context['postprocess'].pop(0); fn()
Drain ==
    /\ pc = "loading" /\ li > Len(inXml) /\ postprocess # <<>>
    /\ LET p == Pop0(postprocess)
           c == RunClosure([Context EXCEPT !.postprocess = p.rest], p.fn)
       IN  /\ Continue(c)
           /\ ran' = Append(ran, p.fn)
           /\ enq' = enq \o Enqueued(p.rest, c)
    /\ UNCHANGED <<inputVars, treeVars, codecVars, delRoots, before, inXml, li, run, serVars, t1, t2>>

XmlToModelsReturn ==
    /\ pc = "loading" /\ li > Len(inXml) /\ postprocess = <<>>
    /\ pc' = "reser"
    /\ run' = 2
    /\ UNCHANGED <<inputVars, treeVars, codecVars, loadVars, delRoots, store, serVars, t1, t2, err>>

-----------------------------------------------------------------------------

Init ==
    /\ schema \in Schemas
    /\ store \in Stores(schema)
    /\ roots \in RootLists(schema)
    /\ includeRest \in BOOLEAN
    /\ appOrder \in IF includeRest THEN Perms(schema.types \ Range(roots)) ELSE {<<>>}
    /\ g0 = store
    /\ pc = "start"
    /\ run = 1
    /\ models = <<>> /\ mi = 0 /\ qs = <<>>
    /\ touched = {} /\ owned_by = <<>> /\ ser_postprocess = <<>>
    /\ stack = <<>> /\ xml = <<>>
    /\ t1 = NoTree /\ t2 = NoTree
    /\ err = ""
    /\ expanded = <<>>
    /\ steps = 0
    /\ delRoots = <<>>
    /\ before = {}
    /\ inXml = <<>> /\ li = 0
    /\ postprocess = <<>> /\ pp_needs_obj = <<>>
    /\ log = <<>> /\ ran = <<>> /\ enq = <<>>
    /\ treeCls = "" /\ treeAcc = <<>>
    /\ cpc = "off" /\ dt = NoDatetime /\ text = <<>>
    /\ dt0 = NoDatetime /\ text0 = <<>> /\ rounds = 0

vars == <<schema, store, roots, includeRest, appOrder, pc, run, models, mi, qs,
          touched, owned_by, ser_postprocess, stack, xml, t1, t2, g0, err, expanded, steps,
          delRoots, before, inXml, li, postprocess, pp_needs_obj, log, ran, enq,
          treeCls, treeAcc,
          cpc, dt, text, dt0, text0, rounds>>

Next ==
    \/ ModelsToXml
    \/ SerTopCls
    \/ SerTopObj
    \/ SerField
    \/ SerOwnedCls
    \/ SerOwnedObj
    \/ SerReturn
    \/ SerDone
    \/ DeleteAllModelsInDb
    \/ XmlToModels
    \/ LoadTop
    \/ Drain
    \/ XmlToModelsReturn

Spec == Init /\ [][Next]_vars

\* The codec alone, on every datetime of Datetimes.
InitCodec ==
    /\ schema = SchemaOwned /\ store = {} /\ roots = <<>> /\ includeRest = FALSE
    /\ appOrder = <<>> /\ g0 = {} /\ pc = "off" /\ run = 1
    /\ models = <<>> /\ mi = 0 /\ qs = <<>>
    /\ touched = {} /\ owned_by = <<>> /\ ser_postprocess = <<>>
    /\ stack = <<>> /\ xml = <<>>
    /\ t1 = NoTree /\ t2 = NoTree
    /\ err = ""
    /\ expanded = <<>>
    /\ steps = 0
    /\ delRoots = <<>>
    /\ before = {}
    /\ inXml = <<>> /\ li = 0
    /\ postprocess = <<>> /\ pp_needs_obj = <<>>
    /\ log = <<>> /\ ran = <<>> /\ enq = <<>>
    /\ treeCls = "" /\ treeAcc = <<>>
    /\ cpc = "value" /\ dt \in Datetimes /\ text = <<>>
    /\ dt0 = dt /\ text0 = <<>> /\ rounds = 0

\* delete_all_models_in_db alone, on a store with one instance of each of
\* twelve types.
InitDelete ==
    /\ schema \in WideSchemas
    /\ store = StoreOf(schema, [t \in schema.types |-> 1], [x \in Slots(schema, [t \in schema.types |-> 1]) |-> 1])
    /\ roots = <<>> /\ includeRest = FALSE
    /\ appOrder = <<>> /\ g0 = store /\ pc = "del" /\ run = 1
    /\ models = <<>> /\ mi = 0 /\ qs = <<>>
    /\ touched = {} /\ owned_by = <<>> /\ ser_postprocess = <<>>
    /\ stack = <<>> /\ xml = <<>>
    /\ t1 = NoTree /\ t2 = NoTree
    /\ err = ""
    /\ expanded = <<>>
    /\ steps = 0
    /\ delRoots = <<>>
    /\ before = {}
    /\ inXml = <<>> /\ li = 0
    /\ postprocess = <<>> /\ pp_needs_obj = <<>>
    /\ log = <<>> /\ ran = <<>> /\ enq = <<>>
    /\ treeCls = "" /\ treeAcc = <<>>
    /\ cpc = "off" /\ dt = NoDatetime /\ text = <<>>
    /\ dt0 = NoDatetime /\ text0 = <<>> /\ rounds = 0

NextDelete == DeleteAllModelsInDb

SpecDelete == InitDelete /\ [][NextDelete]_vars

\* all_models_in_tree(cls, []) for a class of the schema.
AllModelsInTreeCall ==
    /\ pc = "tree"
    /\ \E cls \in schema.types :
          LET r == AllModelsInTree(schema, cls, [acc |-> <<>>, err |-> ""], StartDepth)
          IN  /\ treeCls' = cls
              /\ treeAcc' = r.acc
              /\ err' = r.err
              /\ pc' = IF r.err = "" THEN "treed" ELSE "failed"
    /\ UNCHANGED <<inputVars, codecVars, loadVars, serVars, delRoots, store, run, t1, t2>>

\* all_models_in_tree alone, on every schema of TreeSchemas.
InitTree ==
    /\ schema \in TreeSchemas
    /\ store = {}
    /\ roots = <<>> /\ includeRest = FALSE
    /\ appOrder = <<>> /\ g0 = store /\ pc = "tree" /\ run = 1
    /\ models = <<>> /\ mi = 0 /\ qs = <<>>
    /\ touched = {} /\ owned_by = <<>> /\ ser_postprocess = <<>>
    /\ stack = <<>> /\ xml = <<>>
    /\ t1 = NoTree /\ t2 = NoTree
    /\ err = ""
    /\ expanded = <<>>
    /\ steps = 0
    /\ delRoots = <<>>
    /\ before = {}
    /\ inXml = <<>> /\ li = 0
    /\ postprocess = <<>> /\ pp_needs_obj = <<>>
    /\ log = <<>> /\ ran = <<>> /\ enq = <<>>
    /\ treeCls = "" /\ treeAcc = <<>>
    /\ cpc = "off" /\ dt = NoDatetime /\ text = <<>>
    /\ dt0 = NoDatetime /\ text0 = <<>> /\ rounds = 0

NextTree == AllModelsInTreeCall

SpecTree == InitTree /\ [][NextTree]_vars

\* all_models_in_tree alone, on every schema of DeepSchemas.
InitDepth ==
    /\ schema \in DeepSchemas
    /\ store = {}
    /\ roots = <<>> /\ includeRest = FALSE
    /\ appOrder = <<>> /\ g0 = store /\ pc = "tree" /\ run = 1
    /\ models = <<>> /\ mi = 0 /\ qs = <<>>
    /\ touched = {} /\ owned_by = <<>> /\ ser_postprocess = <<>>
    /\ stack = <<>> /\ xml = <<>>
    /\ t1 = NoTree /\ t2 = NoTree
    /\ err = ""
    /\ expanded = <<>>
    /\ steps = 0
    /\ delRoots = <<>>
    /\ before = {}
    /\ inXml = <<>> /\ li = 0
    /\ postprocess = <<>> /\ pp_needs_obj = <<>>
    /\ log = <<>> /\ ran = <<>> /\ enq = <<>>
    /\ treeCls = "" /\ treeAcc = <<>>
    /\ cpc = "off" /\ dt = NoDatetime /\ text = <<>>
    /\ dt0 = NoDatetime /\ text0 = <<>> /\ rounds = 0

SpecDepth == InitDepth /\ [][NextTree]_vars

\* A second models_to_xml over the same store, in a process in which
\* set(newmodels) is enumerated in some order of its own.
Reenumerate ==
    /\ pc = "del"
    /\ appOrder' \in IF includeRest THEN Perms(schema.types \ Range(roots)) ELSE {<<>>}
    /\ pc' = "reser"
    /\ run' = 2
    /\ UNCHANGED <<schema, roots, includeRest, g0, treeVars, codecVars, loadVars, serVars,
                   delRoots, store, t1, t2, err>>

\* models_to_xml twice over one store.
NextOrder ==
    \/ ModelsToXml
    \/ SerTopCls
    \/ SerTopObj
    \/ SerField
    \/ SerOwnedCls
    \/ SerOwnedObj
    \/ SerReturn
    \/ SerDone
    \/ Reenumerate

SpecOrder == Init /\ [][NextOrder]_vars

NextCodec == EncodeDatetime \/ DecodeDatetime

SpecCodec == InitCodec /\ [][NextCodec]_vars

-----------------------------------------------------------------------------
(* Reading a tree *)

IsInstanceElem(x) == HasDot(IF x.type # "" THEN x.type ELSE x.tag)

ElemClass(x) == ClassOfPath(schema, IF x.type # "" THEN x.type ELSE x.tag)

\* The kid of x with the given tag (x has one).
Kid(x, tag) == x.kids[CHOOSE i \in 1..Len(x.kids) : x.kids[i].tag = tag]

HasKid(x, tag) == \E i \in 1..Len(x.kids) : x.kids[i].tag = tag

ElemIdent(x) == <<ElemClass(x), StrToInt(Kid(x, "id").text)>>

\* The instance elements of a list of elements, with those nested in them.
RECURSIVE ElemsOf(_)
ElemsOf(q) ==
    IF q = <<>> THEN <<>>
    ELSE (IF IsInstanceElem(Head(q)) THEN <<Head(q)>> ELSE <<>>)
         \o ElemsOf(Head(q).kids) \o ElemsOf(Tail(q))

\* The elements with type=reference of a list of elements.
RECURSIVE RefElemsOf(_)
RefElemsOf(q) ==
    IF q = <<>> THEN <<>>
    ELSE (IF Head(q).type = "reference" THEN <<Head(q)>> ELSE <<>>)
         \o RefElemsOf(Head(q).kids) \o RefElemsOf(Tail(q))

FullIdents(q) == LET es == ElemsOf(q) IN [i \in 1..Len(es) |-> ElemIdent(es[i])]

RefTarget(x) == <<ClassOfPath(schema, x.to_type), StrToInt(x.text)>>

RefTargets(q) == LET rs == RefElemsOf(q) IN {RefTarget(rs[i]) : i \in 1..Len(rs)}

NoDuplicates(q) == \A i, j \in 1..Len(q) : i # j => q[i] # q[j]

\* The instances that have a full element so far: in the finished part of
\* the tree and in the nodes the active calls are building.
RECURSIVE FullInStack(_)
FullInStack(st) ==
    IF st = <<>> THEN <<>>
    ELSE <<Ident(Head(st).obj)>> \o FullIdents(Head(st).node.kids)
         \o FullIdents(Head(st).owned.kids) \o FullInStack(Tail(st))

FullSoFar == FullIdents(xml) \o FullInStack(stack)

\* <<owner class, owned class>> for every element directly inside the
\* ___owned element of an instance element.
OwnedKids(x) == IF HasKid(x, "___owned") THEN Kid(x, "___owned").kids ELSE <<>>

NestPairsOf(q) ==
    LET es == ElemsOf(q)
    IN  UNION {{<<ElemClass(es[i]), ElemClass(OwnedKids(es[i])[k])>> :
                    k \in 1..Len(OwnedKids(es[i]))} : i \in 1..Len(es)}

RECURSIVE NestPairsInStack(_)
NestPairsInStack(st) ==
    IF st = <<>> THEN {}
    ELSE {<<Head(st).obj.cls, ElemClass(Head(st).owned.kids[k])>> :
              k \in 1..Len(Head(st).owned.kids)}
         \cup NestPairsOf(Head(st).node.kids) \cup NestPairsOf(Head(st).owned.kids)
         \cup NestPairsInStack(Tail(st))

NestPairsSoFar == NestPairsOf(xml) \cup NestPairsInStack(stack)

\* x refers to o through one of its foreign keys.
RefersTo(x, o) ==
    \E d \in Targets(schema, x.cls) : o.cls = d /\ x.refs[FieldName(d)] = o.pk

\* The instances of st reachable from R through reference fields and through
\* ownership (an instance whose foreign key points at a reachable one).
RECURSIVE Reach(_, _)
Reach(st, R) ==
    LET more == {o \in st : \E x \in R : RefersTo(x, o) \/ RefersTo(o, x)}
    IN  IF more \subseteq R THEN R ELSE Reach(st, R \cup more)

Reachable(st, rts) == Reach(st, {o \in st : o.cls \in Range(rts)})

\* xml_to_models was given the tree of the first models_to_xml, and the
\* store was empty.
Reloading == li >= 1 /\ inXml = t1 /\ before = {}

\* xml_to_models has returned normally.
Loaded == run = 2

-----------------------------------------------------------------------------
(* Claims *)

\* C1: models_to_xml(roots), deleting every instance, then xml_to_models on
\* the tree completes without a fatal error and leaves the store with exactly
\* the instances of the original graph G (every instance of G reachable from
\* the root types).
C1_RoundTrip ==
    Reachable(g0, roots) = g0 =>
        /\ ~(pc = "failed" /\ t1 = NoTree)
        /\ Reloading => pc # "failed"
        /\ (Reloading /\ Loaded) => store = g0

\* C2: when the tree T1 of models_to_xml was reloaded into the emptied store,
\* a second models_to_xml returns a tree T2 equal to T1.
C2_Reserialized ==
    (pc = "done" /\ Reloading) => t2 = t1

C2_Witness ==
    /\ pc = "done" /\ Reloading
    /\ Len(RefElemsOf(t1)) > 0
    /\ NestPairsOf(t1) # {}
    /\ Len(ElemsOf(t1)) >= 4

\* C3: no instance has more than one full element in the tree, finished or
\* under construction, and the instances with a full element are touched.
C3_AtMostOnce ==
    /\ NoDuplicates(FullSoFar)
    /\ Range(FullSoFar) \subseteq touched
    /\ t1 # NoTree => NoDuplicates(FullIdents(t1))

C3_Witness ==
    /\ pc = "ser" /\ stack # <<>>
    /\ Len(RefElemsOf(xml)) > 0
    /\ Top.node.kids # <<>>
    /\ Len(FullSoFar) >= 3

\* C4: every instance reachable from an instance of a root type has a full
\* element in the tree models_to_xml returns.
C4_Complete ==
    t1 # NoTree => Idents(Reachable(g0, roots)) \subseteq Range(FullIdents(t1))

\* C5: if an instance of B is nested in the ___owned element of an instance
\* of A, no instance of B is nested in the ___owned element of an instance of
\* another type.
C5_OwnershipExclusive ==
    \A x, y \in NestPairsSoFar : x[2] = y[2] => x[1] = y[1]

C5_Witness ==
    /\ schema = SchemaDiamond
    /\ t1 # NoTree
    /\ \E x \in NestPairsOf(t1) : x[2] = "C"
    /\ \E a, b, c \in g0 : a.cls = "A" /\ b.cls = "B" /\ RefersTo(c, a) /\ RefersTo(c, b)

\* The record of element x has every reference field the element gives.
FieldsSet(x) ==
    \A i \in 1..Len(x.kids) :
        x.kids[i].type = "reference" =>
            \E o \in store :
                /\ Ident(o) = ElemIdent(x)
                /\ o.refs[x.kids[i].tag] = StrToInt(x.kids[i].text)

\* C6: when the tree has a reference to an instance whose element is created
\* later, xml_to_models completes without error and the reference field is
\* set to that instance.
C6_ForwardReference ==
    (Reloading /\ RefTargets(inXml) \subseteq Range(FullIdents(inXml))) =>
        /\ pc # "failed"
        /\ Loaded => \A i \in 1..Len(ElemsOf(inXml)) : FieldsSet(ElemsOf(inXml)[i])

\* A reference of the tree whose instance no element of the tree defines
\* and the store did not hold.
Dangling(q, st) == RefTargets(q) \ (Range(FullIdents(q)) \cup Idents(st))

\* C7: xml_to_models never returns normally from a tree with a dangling
\* reference.
C7_DanglingFails ==
    Loaded => Dangling(inXml, before) = {}

C7_Witness ==
    /\ pc = "failed" /\ li >= 1 /\ before = {}
    /\ Dangling(inXml, before) # {}
    /\ ran # <<>> /\ ran[Len(ran)].kind = "ref"
    /\ <<ran[Len(ran)].cls, ran[Len(ran)].pk>> \in Dangling(inXml, before)

\* The steps of one models_to_xml call.
SerStep ==
    SerTopCls \/ SerTopObj \/ SerField \/ SerOwnedCls \/ SerOwnedObj \/ SerReturn \/ SerDone

RECURSIVE SetSum(_, _)
SetSum(f, S) ==
    IF S = {} THEN 0
    ELSE LET x == CHOOSE y \in S : TRUE IN f[x] + SetSum(f, S \ {x})

\* A bound on the steps of models_to_xml: one per class and per row of the
\* top-level loops, and for each instance one per field, per owned class,
\* per instance that refers to it, and one for its return.
StepBound ==
    Len(models)
    + SetSum([i \in 1..Len(models) |-> Len(ObjectsAll(store, models[i]))], 1..Len(models))
    + SetSum([o \in store |-> Len(Fields(schema, o.cls)) + Len(OwnedModels(schema, o.cls))
                              + Cardinality({c \in store : RefersTo(c, o)}) + 1], store)

\* The element of instance o has, for each foreign key, one child: a
\* reference to the target or the target's full element.
FieldKidsOk(x) ==
    \E o \in g0 :
        /\ Ident(o) = ElemIdent(x)
        /\ \A d \in Targets(schema, o.cls) :
              /\ Cardinality({i \in 1..Len(x.kids) : x.kids[i].tag = FieldName(d)}) = 1
              /\ LET k == Kid(x, FieldName(d))
                 IN  \/ k.type = "reference" /\ RefTarget(k) = <<d, o.refs[FieldName(d)]>>
                     \/ k.type = PathToClass(d) /\ ElemIdent(k) = <<d, o.refs[FieldName(d)]>>

\* An instance on a cycle of references (it reaches itself).
RECURSIVE Forward(_, _)
Forward(st, R) ==
    LET more == {o \in st : \E x \in R : RefersTo(x, o)}
    IN  IF more \subseteq R THEN R ELSE Forward(st, R \cup more)

OnCycle(st, o) == o \in Forward(st, {x \in st : RefersTo(o, x)})

\* C10: models_to_xml terminates, also on a store with cycles of references:
\* a step is always possible until it returns, the steps are bounded, no
\* instance gets past the touched test twice, and a field whose instance is
\* already touched holds a reference element.
C10_Terminates ==
    /\ \A i \in DOMAIN expanded : expanded[i] <= 1
    /\ pc = "ser" => (steps <= StepBound /\ ENABLED SerStep)
    /\ t1 # NoTree => LET es == ElemsOf(t1) IN \A i \in 1..Len(es) : FieldKidsOk(es[i])

C10_Witness ==
    /\ pc = "del"
    /\ \E o \in g0 : OnCycle(g0, o) /\ ~RefersTo(o, o)
    /\ \E i \in 1..Len(RefElemsOf(t1)) :
          OnCycle(g0, Lookup(g0, RefTarget(RefElemsOf(t1)[i])[1], RefTarget(RefElemsOf(t1)[i])[2]))


\* C8: decoding the text of a naive or UTC datetime gives the datetime back,
\* encoding it again gives the same text, and the text ends in ",UTC)"
\* exactly when the datetime is UTC.
C8_DatetimeRoundTrip ==
    /\ cpc # "failed"
    /\ (cpc = "value" /\ rounds >= 2) => dt = dt0
    /\ (cpc = "text" /\ rounds >= 3) => text = text0
    /\ cpc = "text" =>
          (dt0.utc <=> SubSeq(text, Len(text) - 4, Len(text)) = <<",", "U", "T", "C", ")">>)

C8_Witness ==
    /\ cpc = "text" /\ rounds = 3
    /\ dt0.utc /\ dt0.us = 1456 /\ dt0.y = 2014


\* The types related to the types of R: reachable through foreign keys,
\* followed from either end.
RECURSIVE RelatedTypes(_, _)
RelatedTypes(s, R) ==
    LET more == {t \in s.types : \E r \in R : <<r, t>> \in s.fk \/ <<t, r>> \in s.fk}
    IN  IF more \subseteq R THEN R ELSE RelatedTypes(s, R \cup more)

\* C9: after delete_all_models_in_db(roots) the store holds no instance of a
\* root type or of a type related to a root type.
C9_AllCleared ==
    (pc = "load" /\ delRoots # <<>>) =>
        \A o \in store : o.cls \notin RelatedTypes(schema, Range(delRoots))

\* How often x occurs in q.
Count(q, x) == Cardinality({i \in 1..Len(q) : q[i] = x})

\* C11: when xml_to_models has returned normally the postprocess list is
\* empty, and every closure that was appended to it, by a top-level element
\* or by another closure, was called exactly once.
C11_QueueDrained ==
    Loaded =>
        /\ postprocess = <<>>
        /\ \A x \in Range(enq) \cup Range(ran) : Count(ran, x) = Count(enq, x)

C11_Witness ==
    /\ Loaded /\ Len(ran) >= 3
    /\ \E i \in 1..Len(ran) : ran[i].kind = "owned" /\ OwnedKids(ran[i].child) # <<>>

\* C12: every instance a of an owner type nests its owned instances: an
\* instance b of a type owned by a's type and claimed by it, whose foreign
\* key is a's primary key, has its full element before a's element or inside
\* it (b was touched earlier, or a serialized it).
C12_OwnerNestsOwned ==
    (pc = "del" /\ t1 # NoTree) =>
        \A i \in 1..Len(ElemsOf(t1)) :
            LET x    == ElemsOf(t1)[i]
                a    == ElemIdent(x)
                last == i + Len(ElemsOf(<<x>>)) - 1
            IN  \A b \in store :
                    (/\ b.cls \in Range(OwnedModels(schema, a[1]))
                     /\ b.refs[FieldName(a[1])] = a[2]
                     /\ b.cls \in DOMAIN owned_by
                     /\ owned_by[b.cls] = Class(a[1]))
                    => \E j \in 1..last : FullIdents(t1)[j] = Ident(b)

\* A step of models_to_xml keeps every entry of owned_by, and an entry it
\* adds maps a type owned by the class of the instance being serialized to
\* that class.
OwnedByKept ==
    pc = "ser" =>
        /\ \A k \in DOMAIN owned_by : k \in DOMAIN owned_by' /\ owned_by'[k] = owned_by[k]
        /\ \A k \in DOMAIN owned_by' \ DOMAIN owned_by :
              /\ stack # <<>>
              /\ k \in Range(OwnedModels(schema, Top.obj.cls))
              /\ owned_by'[k] = Class(Top.obj.cls)

\* models_to_xml starts with exactly the root types in owned_by, without owner.
OwnedByStart ==
    (pc # "ser" /\ pc' = "ser") =>
        /\ DOMAIN owned_by' = Range(roots)
        /\ \A k \in Range(roots) : owned_by'[k] = None

\* C13: owned_by starts with every root type mapped to no owner, an owned
\* type gets its entry from the first owner type that claims it, no entry
\* is changed or removed during the run, and no instance of a root type is
\* nested in a ___owned element.
C13_OwnedByWriteOnce ==
    /\ [][OwnedByStart /\ OwnedByKept]_vars
    /\ [](pc = "ser" => \A k \in Range(roots) : k \in DOMAIN owned_by /\ owned_by[k] = None)
    /\ [](\A x \in NestPairsSoFar : x[2] \notin Range(roots))

C13_Witness ==
    /\ pc = "ser" /\ stack # <<>> /\ Top.omodels = <<>>
    /\ \E k \in DOMAIN owned_by :
          /\ owned_by[k] # None
          /\ owned_by[k] # Class(Top.obj.cls)
          /\ k \in Range(OwnedModels(schema, Top.obj.cls))

\* A step that leaves the context of models_to_xml alone and enters no call.
NoRecursion ==
    /\ Len(stack') = Len(stack)
    /\ touched' = touched /\ owned_by' = owned_by /\ ser_postprocess' = ser_postprocess
    /\ expanded' = expanded

\* _model_to_xml(v, context, name=k) for a field value v that is touched.
RevisitAsField ==
    (/\ pc = "ser" /\ stack # <<>> /\ Top.wait = "" /\ Top.fields # <<>>
     /\ Head(Top.fields).to # ""
     /\ Top.obj.refs[Head(Top.fields).name] # 0
     /\ <<Head(Top.fields).to, Top.obj.refs[Head(Top.fields).name]>> \in touched)
    => /\ NoRecursion
       /\ stack'[Len(stack)].node.kids =
             Append(Top.node.kids,
                    [tag |-> Head(Top.fields).name, type |-> "reference",
                     to_type |-> PathToClass(Head(Top.fields).to),
                     text |-> IntToStr(Top.obj.refs[Head(Top.fields).name]),
                     kids |-> <<>>])
       /\ stack'[Len(stack)].owned = Top.owned
       /\ xml' = xml

\* _model_to_xml(o, context) for an owned instance o that is touched.
RevisitAsOwned ==
    (/\ pc = "ser" /\ stack # <<>> /\ Top.wait = "" /\ Top.fields = <<>>
     /\ Top.objs # <<>> /\ Ident(Head(Top.objs)) \in touched)
    => /\ NoRecursion
       /\ stack'[Len(stack)].node = Top.node
       /\ stack'[Len(stack)].owned = Top.owned
       /\ xml' = xml

\* The top-level loop on an instance that is touched.
RevisitAtTop ==
    (pc = "ser" /\ stack = <<>> /\ qs # <<>> /\ Ident(Head(qs)) \in touched)
    => NoRecursion /\ xml' = xml

\* C14: on an instance that is touched _model_to_xml returns, for a field,
\* one element with the field's name, type=reference, to_type the class path
\* and text the primary key, and no element without a field name; it enters
\* no call and leaves touched, owned_by and the postprocess list unchanged.
C14_Revisit == [][RevisitAsField /\ RevisitAsOwned /\ RevisitAtTop]_vars

\* The instance being serialized referred to a touched instance and skipped
\* a touched instance it owns.
C14_Witness ==
    /\ pc = "ser" /\ stack # <<>>
    /\ Top.omodels = <<>> /\ Top.objs = <<>> /\ Top.owned.kids = <<>>
    /\ \E i \in 1..Len(Top.node.kids) : Top.node.kids[i].type = "reference"
    /\ \A o \in store : (o.cls = Top.obj.cls /\ Ident(o) \in touched) => o = Top.obj
    /\ \E k \in DOMAIN owned_by :
          /\ owned_by[k] = Class(Top.obj.cls)
          /\ \E b \in store : b.cls = k /\ b.refs[FieldName(Top.obj.cls)] = Top.obj.pk

\* C15: xml_to_models calls the closures in the order in which they were
\* appended (the closures called are the first ones appended, the list holds
\* the others in that order), and it calls none before every top-level
\* element was processed.
C15_Fifo ==
    /\ Len(ran) <= Len(enq)
    /\ \A i \in 1..Len(ran) : ran[i] = enq[i]
    /\ pc = "loading" => postprocess = SubSeq(enq, Len(ran) + 1, Len(enq))
    /\ ran # <<>> => li > Len(inXml)

\* A closure appended during the drain ran after a closure a top-level
\* element appended.
C15_Witness ==
    /\ Loaded
    /\ \E i, j, k \in 1..Len(ran) :
          /\ i < j /\ j < k
          /\ ran[i].kind = "owned" /\ ran[j].kind = "owned" /\ ran[k].kind = "owned"
          /\ \E n \in 1..Len(OwnedKids(ran[i].child)) : OwnedKids(ran[i].child)[n] = ran[k].child
          /\ \E t \in 1..Len(inXml) :
                \E n \in 1..Len(OwnedKids(inXml[t])) : OwnedKids(inXml[t])[n] = ran[j].child

\* The positions of identity id in the list of created instances.
CreatedAt(id) == {n \in 1..Len(log) : log[n] = id}

\* C16: the record of an element inside a ___owned element is created after
\* the record of the enclosing element, at every depth.
C16_OwnerBeforeOwned ==
    (li >= 1 /\ log # <<>>) =>
        LET es == ElemsOf(inXml)
        IN  \A i \in 1..Len(es) :
                \A k \in 1..Len(OwnedKids(es[i])) :
                    \A n \in CreatedAt(ElemIdent(OwnedKids(es[i])[k])) :
                        \E m \in CreatedAt(ElemIdent(es[i])) : m < n

\* Loaded from a tree with an owned element inside an owned element.
C16_Witness ==
    /\ Loaded
    /\ \E i \in 1..Len(ElemsOf(inXml)) :
          \E k \in 1..Len(OwnedKids(ElemsOf(inXml)[i])) :
              OwnedKids(OwnedKids(ElemsOf(inXml)[i])[k]) # <<>>

\* The number of children of ___owned elements in a list of elements.
OwnedChildren(q) ==
    LET es == ElemsOf(q)
    IN  SetSum([i \in 1..Len(es) |-> Len(OwnedKids(es[i]))], 1..Len(es))

\* The closures of deferred references in a list of closures.
Deferred(q) == SelectSeq(q, LAMBDA fn : fn.kind = "ref")

\* The closures appended and called, and the steps taken, stay within what
\* the tree allows.
LoadBounded ==
    li >= 1 =>
        /\ Len(enq) - Len(Deferred(enq)) <= OwnedChildren(inXml)
        /\ Len(Deferred(enq)) <= Len(RefElemsOf(inXml))
        /\ Len(Deferred(ran)) <= 1
        /\ Len(ran) <= OwnedChildren(inXml) + Len(Deferred(enq))
        /\ (li - 1) + Len(ran) <= Len(inXml) + OwnedChildren(inXml) + Len(RefElemsOf(inXml))

\* A step of xml_to_models ends the call or takes one top-level element or
\* one closure.
LoadAdvances ==
    pc = "loading" =>
        \/ pc' # "loading"
        \/ li' + Len(ran') = li + Len(ran) + 1

\* C17: xml_to_models returns or fails after finitely many steps: every step
\* takes a top-level element or a closure, every closure appended is a child
\* of a ___owned element or a reference that was not found, the closure of a
\* reference is called at most once and never appended again, so the
\* closures called are at most the ___owned children plus the references
\* that were not found.
C17_LoadTerminates == []LoadBounded /\ [][LoadAdvances]_vars

\* The call ended on the closure of a reference, after the closure of an
\* owned child.
C17_Witness ==
    /\ pc = "failed" /\ li > Len(inXml)
    /\ Len(ran) >= 2
    /\ ran[1].kind = "owned"
    /\ ran[Len(ran)].kind = "ref"
    /\ Len(ran) = OwnedChildren(inXml) + Len(Deferred(enq))

\* The reference children of element x.
RefKids(x) == SelectSeq(x.kids, LAMBDA k : k.type = "reference")

\* The store held the instance id when the references of the element whose
\* record was created n-th were decoded.
HeldFor(id, n) == id \in Idents(before) \/ \E m \in 1..(n - 1) : log[m] = id

\* <<i, k>>: the k-th reference of the i-th element of the tree was decoded
\* (the element's record exists) while the store did not hold its instance.
NotFound ==
    LET es == ElemsOf(inXml)
    IN  UNION {{<<i, k>> : k \in {j \in 1..Len(RefKids(es[i])) :
                    \E n \in CreatedAt(ElemIdent(es[i])) :
                        ~HeldFor(RefTarget(RefKids(es[i])[j]), n)}} :
               i \in 1..Len(es)}

\* C18: a reference that is decoded while the store holds its instance
\* becomes the field value given to create, and appends nothing to the
\* postprocess list: _xml_to_field returns the instance and leaves the
\* context as it is, the created record has the field set, and the closures
\* of references count the references that were not found. (Primary keys
\* are unique in the store, so more than one match cannot be found.)
C18_ImmediateReference ==
    (li >= 1 /\ pc # "failed") =>
        LET es == ElemsOf(inXml)
        IN  /\ \A i \in 1..Len(es) : \A k \in 1..Len(RefKids(es[i])) :
                  LET r == RefKids(es[i])[k]
                      y == RefTarget(r)
                  IN  /\ (\E o \in store : Ident(o) = y) =>
                             /\ XmlToField(r, Context, r.tag).c = Context
                             /\ XmlToField(r, Context, r.tag).val.kind = "instance"
                             /\ XmlToField(r, Context, r.tag).val.cls = y[1]
                             /\ XmlToField(r, Context, r.tag).val.pk = y[2]
                      /\ \A n \in CreatedAt(ElemIdent(es[i])) :
                             HeldFor(y, n) =>
                                 \E o \in store : Ident(o) = ElemIdent(es[i]) /\ o.refs[r.tag] = y[2]
            /\ Len(Deferred(enq)) = Cardinality(NotFound)

\* Loaded a tree whose second top-level element refers to an instance the
\* first one created.
C18_Witness ==
    /\ Loaded /\ Len(inXml) >= 2
    /\ RefKids(inXml[2]) # <<>>
    /\ RefTarget(RefKids(inXml[2])[1]) = ElemIdent(inXml[1])

\* C19: the postprocess list of models_to_xml is empty in every state, the
\* body of its drain loop never runs (it would raise UnboundLocalError), and
\* models_to_xml returns the tree.
C19_SerPostprocessEmpty ==
    /\ ser_postprocess = <<>>
    /\ err # "UnboundLocalError"
    /\ (pc = "ser" /\ stack = <<>> /\ qs = <<>> /\ mi = Len(models)) => ENABLED SerDone
    /\ pc = "del" => t1 # NoTree

\* models_to_xml has returned a tree with nested and top-level elements.
C19_Witness ==
    /\ pc = "del" /\ t1 # NoTree /\ Len(t1) >= 2
    /\ \E i \in 1..Len(t1) : OwnedKids(t1[i]) # <<>>

\* C20: all_models_in_tree(root, []) returns, and leaves in the list the
\* types related to root through reference fields and ownership, root
\* included, each once.
C20_TreeClosure ==
    /\ pc # "failed"
    /\ pc = "treed" =>
          /\ Range(treeAcc) = RelatedTypes(schema, {treeCls})
          /\ NoDuplicates(treeAcc)
          /\ treeAcc[1] = treeCls

\* The list of a root on a cycle of references, with a type found only
\* through ownership.
C20_Witness ==
    /\ pc = "treed" /\ Len(treeAcc) = 3
    /\ \E b \in schema.types \ {treeCls} :
          <<treeCls, b>> \in schema.fk /\ <<b, treeCls>> \in schema.fk
    /\ \E c \in schema.types :
          /\ <<c, treeCls>> \in schema.fk
          /\ \A d \in schema.types : <<d, c>> \notin schema.fk

\* C21: all_models_in_tree started with depth 20 returns with every type
\* related to the start type in the list, or fails with an assertion on a
\* call without depth left, after the calls above it added 20 types; it
\* never returns with a related type missing.
C21_DepthFatal ==
    /\ pc = "treed" => RelatedTypes(schema, {treeCls}) \subseteq Range(treeAcc)
    /\ pc = "failed" =>
          /\ err = "AssertionError"
          /\ Len(treeAcc) >= StartDepth
          /\ Range(treeAcc) \subseteq RelatedTypes(schema, {treeCls})

\* The depth ran out on a chain of more than 20 types.
C21_Witness ==
    /\ pc = "failed" /\ err = "AssertionError"
    /\ Len(treeAcc) = StartDepth
    /\ Cardinality(schema.types) > StartDepth

\* C22: whatever the length of the root list, the types whose rows
\* delete_all_models_in_db removed are the root types and every type related
\* to a root type: the cap of ten rounds leaves no related type uncleared.
C22_CapLeavesNothing ==
    (pc = "load" /\ delRoots # <<>>) =>
        {o.cls : o \in g0 \ store} =
            {o.cls : o \in {x \in g0 : x.cls \in RelatedTypes(schema, Range(delRoots))}}

\* C23: when xml_to_models has returned normally, create was called once
\* for each instance element of the tree (top-level, child of ___owned, or
\* field with a class path as type) and for nothing else.
C23_OneRecordPerElement ==
    (Loaded /\ pc = "reser") =>
        LET ids == FullIdents(inXml)
        IN  /\ Len(log) = Len(ids)
            /\ \A id \in Range(ids) \cup Range(log) : Count(log, id) = Count(ids, id)

\* Loaded a tree with an instance given as a field, a child of ___owned
\* and a reference.
C23_Witness ==
    /\ Loaded /\ li >= 1 /\ Len(log) >= 3
    /\ RefElemsOf(inXml) # <<>>
    /\ \E i \in 1..Len(ElemsOf(inXml)) :
          ElemsOf(inXml)[i].type # "" /\ OwnedKids(ElemsOf(inXml)[i]) # <<>>

\* C24: two models_to_xml runs with the same root list and
\* include_rest_of_app=True over the same store return the same tree,
\* whatever the order in which the other types of the app are enumerated.
C24_StableOrder ==
    (pc = "done" /\ includeRest /\ store = g0) => t2 = t1

\* The primary key the field element k designates: the text of a reference,
\* the id of an instance written inline.
DesignatedPk(k) == IF k.type = "reference" THEN StrToInt(k.text) ELSE ElemIdent(k)[2]

\* The record an instance element describes by its own field elements alone.
FromOwnFields(e) ==
    [cls  |-> ElemClass(e),
     pk   |-> ElemIdent(e)[2],
     refs |-> [f \in {FieldName(d) : d \in Targets(schema, ElemClass(e))} |->
                  IF HasKid(e, f) THEN DesignatedPk(Kid(e, f)) ELSE 0]]

\* The elements that stand directly inside the ___owned element of another.
NestedElems(q) ==
    LET es == ElemsOf(q)
    IN  UNION {Range(OwnedKids(es[i])) : i \in 1..Len(es)}

\* C25: after xml_to_models has returned, the record of every element, at
\* the top level or inside ___owned, is the one its own field elements
\* describe: its type, its id and its reference fields; nesting writes
\* nothing into it.
C25_NestingInformational ==
    (Loaded /\ pc = "reser") =>
        LET es == ElemsOf(inXml)
        IN  \A i \in 1..Len(es) : FromOwnFields(es[i]) \in store

\* A load has returned for a tree in which an element is nested in ___owned.
C25_Witness ==
    /\ Loaded /\ pc = "reser"
    /\ \E e \in NestedElems(inXml) :
          /\ FromOwnFields(e) \in store
          /\ \E top \in Range(inXml) : e \in Range(OwnedKids(top))

\* Every type=reference element of the tree designates an instance that has
\* a full element in the tree.
ReferenceClosed(tree) == RefTargets(tree) \subseteq Range(FullIdents(tree))

\* C26: in every tree models_to_xml returns, each type=reference element
\* designates (to_type and primary key) an instance that has a full element
\* somewhere in the same tree.
C26_ReferenceClosed ==
    /\ t1 # NoTree => ReferenceClosed(t1)
    /\ t2 # NoTree => ReferenceClosed(t2)

\* models_to_xml has returned a tree that holds a type=reference element
\* whose instance has its full element in that tree.
C26_Witness ==
    /\ t1 # NoTree
    /\ RefElemsOf(t1) # <<>>
    /\ ReferenceClosed(t1)

\* The instance elements that stand directly among the fields of e.
InlineKids(e) == SelectSeq(e.kids, IsInstanceElem)

\* The class the field f of class cls refers to ("" if f is no reference field).
FieldTarget(cls, f) ==
    IF \E d \in Targets(schema, cls) : FieldName(d) = f
    THEN CHOOSE d \in Targets(schema, cls) : FieldName(d) = f
    ELSE ""

\* _model_to_xml is about to write a reference field whose instance is not
\* in touched.
MeetsUntouched ==
    /\ pc = "ser" /\ stack # <<>> /\ Top.wait = "" /\ Top.fields # <<>>
    /\ Head(Top.fields).to # ""
    /\ Top.obj.refs[Head(Top.fields).name] # 0
    /\ <<Head(Top.fields).to, Top.obj.refs[Head(Top.fields).name]>> \notin touched

\* The instance is then written in full, under the tag of the field and with
\* its class path as the type.
WritesInline ==
    (MeetsUntouched /\ stack' # stack) =>
        LET fld == Head(Top.fields)
            new == stack'[Len(stack')]
        IN  /\ Len(stack') = Len(stack) + 1
            /\ Ident(new.obj) = <<fld.to, Top.obj.refs[fld.name]>>
            /\ new.node.tag = fld.name
            /\ new.node.type = PathToClass(fld.to)
            /\ stack'[Len(stack)].wait = "field"

\* In the tree models_to_xml has just returned, an instance element among the fields of another
\* carries a reference field's tag, the class path of the field's class as
\* type, and the id the field holds.
InlineInTree ==
    (pc = "del" /\ t1 # NoTree) =>
        LET es == ElemsOf(t1)
        IN  \A i \in 1..Len(es) : \A j \in 1..Len(InlineKids(es[i])) :
                LET k == InlineKids(es[i])[j]
                IN  /\ FieldTarget(ElemClass(es[i]), k.tag) # ""
                    /\ k.type = PathToClass(FieldTarget(ElemClass(es[i]), k.tag))
                    /\ Lookup(g0, ElemClass(es[i]), ElemIdent(es[i])[2]).refs[k.tag]
                           = ElemIdent(k)[2]

\* During and after xml_to_models, the record of an inline element is created before the record of
\* the element it is a field of, and that record holds it in the field.
InlineCreatedFirst ==
    (pc \in {"loading", "reser", "failed"} /\ li >= 1 /\ log # <<>>) =>
        LET es == ElemsOf(inXml)
        IN  \A i \in 1..Len(es) : \A j \in 1..Len(InlineKids(es[i])) :
                LET k == InlineKids(es[i])[j]
                IN  \A n \in CreatedAt(ElemIdent(es[i])) :
                        /\ \E m \in CreatedAt(ElemIdent(k)) : m < n
                        /\ Lookup(store, ElemClass(es[i]), ElemIdent(es[i])[2]).refs[k.tag]
                               = ElemIdent(k)[2]

\* C27: an instance not yet touched that is met as the value of a reference
\* field is written as a full element under the field's tag, with its class
\* path as type; xml_to_models creates the record of such an element
\* strictly before the record of the enclosing element, and creates the
\* enclosing record with that field equal to the nested record.
C27_InlineFirst == [](InlineInTree /\ InlineCreatedFirst) /\ [][WritesInline]_vars

\* A tree with an inline field element has been loaded: the enclosing record
\* is in the log after the nested one.
C27_Witness ==
    /\ Loaded
    /\ \E i \in 1..Len(ElemsOf(inXml)) :
          /\ InlineKids(ElemsOf(inXml)[i]) # <<>>
          /\ CreatedAt(ElemIdent(ElemsOf(inXml)[i])) # {}
          /\ CreatedAt(ElemIdent(InlineKids(ElemsOf(inXml)[i])[1])) # {}

=============================================================================
